---- MODULE Spec2Model ----
(***************************************************************************)
(* The ledger of the trip expense manager (src/trip_expense_app.py): the   *)
(* members, the advance pool, the expense list, the settlement list, the   *)
(* transaction log and the per-member summary of one trip, and the four    *)
(* handlers that change them: Add Member, Add Advance, Add Expense and     *)
(* Mark as Settled.  Streamlit reruns the script once per interaction and  *)
(* at most one button is pressed per run, so every step is one run of the  *)
(* script to its end: one handler, or none, and the reads of the summary   *)
(* table and of the member details that follow it.                         *)
(*                                                                         *)
(* Money is counted in hundredths of a rupee (the precision the number     *)
(* inputs show and round(., 2) keeps), as integers: 30000 is Rs. 300.00.   *)
(* The Python floats carry, besides these amounts, binary residues of the  *)
(* order of 1e-18 (0.03 - 0.02 is not 0.01); the residues, and the edges   *)
(* of such an amount they can leave behind, are not represented.           *)
(***************************************************************************)
EXTENDS Integers, Sequences, FiniteSets, TLC

\* The names typed into "New Member", in the order in which they are first typed.
NameList == <<"Alice", "Bob", "Carol">>

Names == {NameList[i] : i \in 1..Len(NameList)}

\* What st.selectbox returns when its option list is empty.
None == "None"

\* Bounds on the length of the transaction log and on the work recorded in it, where
\* an advance or a settlement counts for one and an expense for two.
MaxLog == 3

MaxWork == 4

\* The inputs of a specification: the values entered in "Advance Amount" and in
\* "Expense Amount" (both min_value=0.0) and the values the "Settlement Amount" input
\* hands to the handler, in hundredths.
SmallInputs == [advance |-> {0, 2, 3}, expense |-> {0, 1, 4}, settle |-> {0, 1, 5}]

\* The amounts of the scenarios of the specification document: Rs. 300 advanced,
\* Rs. 150 and Rs. 90 spent, Rs. 45 and Rs. 50 settled.
ScenarioInputs ==
    [advance |-> {30000}, expense |-> {15000, 9000}, settle |-> {4500, 5000}]

\* Values entered in "Optional Note".
Notes == {"lunch"}

\* Values entered in "Reason / Description".
Reasons == {"trip"}

VARIABLES
    members,        \* trip['members']: list of names, in order of addition
    advances,       \* trip['advances']: treasurer -> ordered dict contributor -> amount
    expenses,       \* trip['expenses']: list of expense records
    transactions,   \* trip['transactions']: the transaction log
    settlements,    \* trip['settlements']: list of settlement records
    summary,        \* trip['summary']: member -> summary record, the default for a new key
    entries,        \* the keys of trip['summary'], a defaultdict
    now,            \* the latest reading of the clock (datetime.now(), whole seconds)
    last            \* the request handled by the latest run, with the ledger before it

ledger == <<members, advances, expenses, transactions, settlements, summary>>
vars ==
    <<members, advances, expenses, transactions, settlements, summary, entries, now, last>>

----------------------------------------------------------------------------
(* Dictionaries *)

Min(a, b) == IF a <= b THEN a ELSE b

\* A dict without keys.
EmptyDict == [k \in {} |-> 0]

\* d.get(k, 0.0)
DictGet(d, k) == IF k \in DOMAIN d THEN d[k] ELSE 0

\* d[k] += v on a defaultdict(float): the key is created when absent, also for v = 0.
DictAdd(d, k, v) ==
    [x \in DOMAIN d \cup {k} |-> IF x = k THEN DictGet(d, k) + v ELSE d[x]]

\* del d[k]
DictDel(d, k) == [x \in DOMAIN d \ {k} |-> d[x]]

RECURSIVE SumOver(_, _)
SumOver(d, keys) ==
    IF keys = {} THEN 0
    ELSE LET k == CHOOSE x \in keys : TRUE IN d[k] + SumOver(d, keys \ {k})

\* sum(v for k, v in d.items() if k != name)
SumExcept(d, name) == SumOver(d, DOMAIN d \ {name})

\* An insertion-ordered dict (the inner dicts of trip['advances']): a sequence of
\* [c |-> key, amt |-> value] with distinct keys.
OdKeys(od) == {od[i].c : i \in 1..Len(od)}

OdGet(od, k) ==
    IF k \in OdKeys(od) THEN (CHOOSE e \in {od[i] : i \in 1..Len(od)} : e.c = k).amt ELSE 0

\* od[k] += v on a defaultdict(float): a new key goes to the end.
OdAdd(od, k, v) ==
    IF k \in OdKeys(od)
    THEN [i \in 1..Len(od) |-> IF od[i].c = k THEN [c |-> k, amt |-> od[i].amt + v] ELSE od[i]]
    ELSE Append(od, [c |-> k, amt |-> v])

RECURSIVE OdSum(_)
OdSum(od) == IF od = <<>> THEN 0 ELSE Head(od).amt + OdSum(Tail(od))

\* The set of elements of a list.
Range(s) == {s[i] : i \in 1..Len(s)}

\* The selections of a multiselect over a list: the chosen options in the order they
\* were chosen, so every arrangement of every subset of the list.
RECURSIVE Arrangements(_)
Arrangements(S) ==
    {<<>>} \cup UNION {{<<x>> \o r : r \in Arrangements(S \ {x})} : x \in S}

Selections(l) == Arrangements(Range(l))

\* The options of a selectbox over a list: its elements, or None when it is empty.
Options(l) == IF l = <<>> THEN {None} ELSE Range(l)

----------------------------------------------------------------------------
(* Initial state *)

DefaultSummary ==
    [advance_given |-> 0, advance_received |-> 0, advance_used_by_others |-> 0,
     advance_used_from_others |-> 0, advance_balance |-> 0, own_paid |-> 0,
     share |-> 0, owes_to |-> EmptyDict, gets_from |-> EmptyDict]

\* The keys every run creates in trip['summary'], whatever is pressed: the script
\* reads trip['summary'][settle_from] (line 210), trip['summary'][name] for every
\* member (255) and trip['summary'][selected_member] (279), and a defaultdict creates
\* the entry it is asked for.  The selectboxes yield members, or None without members.
RunReads(ms) == Options(ms)

\* The ledger as a record, for `last.pre`.
Snapshot ==
    [members |-> members, advances |-> advances, expenses |-> expenses,
     transactions |-> transactions, settlements |-> settlements, summary |-> summary,
     entries |-> entries]

NoRequest ==
    [op |-> "None", ok |-> FALSE, a |-> None, b |-> None, amt |-> 0, ps |-> <<>>,
     sources |-> <<>>]

Init ==
    /\ members = <<>>
    /\ advances = EmptyDict
    /\ expenses = <<>>
    /\ transactions = <<>>
    /\ settlements = <<>>
    /\ summary = [m \in Names \cup {None} |-> DefaultSummary]
    /\ entries = RunReads(<<>>)
    /\ now = 0
    /\ last = [req |-> NoRequest, pre |-> Snapshot]

\* LogEntry with the tag "Expense" on every entry.
LogEntry_OneTag(kind, a, b, ps, amount, text) ==
    [kind |-> "Expense", a |-> a, b |-> b, ps |-> ps, amount |-> amount, text |-> text]

\* An entry of the transaction log: the f-strings "Advance: {a} gave Rs. {amount} to
\* {b}", "Expense: {a} paid Rs. {amount} for {ps} - {text}" and "Settlement: {a} paid
\* Rs. {amount} to {b} ({text})", kept as the values they are formatted from.
LogEntry(kind, a, b, ps, amount, text) ==
    [kind |-> kind, a |-> a, b |-> b, ps |-> ps, amount |-> amount, text |-> text]

\* The record of a request, applied (ok) or refused, with its inputs.
Request(op, ok, a, b, amt, ps, sources) ==
    [op |-> op, ok |-> ok, a |-> a, b |-> b, amt |-> amt, ps |-> ps, sources |-> sources]

----------------------------------------------------------------------------
(* Add Member *)

\* The number of advances in the transaction log.
NumAdvances == Cardinality({i \in 1..Len(transactions) : transactions[i].kind = "Advance"})

\* The work recorded in the log: one for an advance or a settlement, two for an expense.
Work == Len(transactions) + Len(expenses)

\* The bounds leave room for one more advance, expense or settlement.
RoomForAdvance == Len(transactions) < MaxLog /\ Work + 1 <= MaxWork

RoomForExpense == Len(transactions) < MaxLog /\ Work + 2 <= MaxWork

RoomForSettlement == Len(transactions) < MaxLog /\ Work + 1 <= MaxWork

\* What is typed into "New Member": a name already in the list, or the next new one.
NewMemberInputs ==
    Range(members) \cup
    (IF Len(members) < Len(NameList) THEN {NameList[Len(members) + 1]} ELSE {})

AddMember(new_member) ==
    IF new_member \notin Range(members)
    THEN /\ members' = Append(members, new_member)
         /\ last' = [req |-> Request("AddMember", TRUE, new_member, None, 0, <<>>, <<>>),
                     pre |-> Snapshot]
         /\ entries' = entries \cup RunReads(members')
         /\ UNCHANGED <<advances, expenses, transactions, settlements, summary, now>>
    ELSE /\ last' = [req |-> Request("AddMember", FALSE, new_member, None, 0, <<>>, <<>>),
                     pre |-> Snapshot]
         /\ entries' = entries \cup RunReads(members)
         /\ UNCHANGED <<ledger, now>>

----------------------------------------------------------------------------
(* 1. Record Advance *)

\* trip['advances'][adv_to][adv_from] += adv_amt
AdvancePool(adv, adv_from, adv_to, adv_amt) ==
    [t \in DOMAIN adv \cup {adv_to} |->
        IF t = adv_to
        THEN OdAdd(IF adv_to \in DOMAIN adv THEN adv[adv_to] ELSE <<>>, adv_from, adv_amt)
        ELSE adv[t]]

\* AdvanceSummary without the update of advance_balance.
AdvanceSummary_BalanceKept(sm, adv_from, adv_to, adv_amt) ==
    LET s1 == [sm EXCEPT ![adv_from].advance_given = @ + adv_amt]
    IN  [s1 EXCEPT ![adv_to].advance_received = @ + adv_amt]

\* The three summary updates of an advance.
AdvanceSummary(sm, adv_from, adv_to, adv_amt) ==
    LET s1 == [sm EXCEPT ![adv_from].advance_given = @ + adv_amt,
                         ![adv_from].advance_balance = @ + adv_amt]
    IN  [s1 EXCEPT ![adv_to].advance_received = @ + adv_amt]

\* AdvanceAccepted without the test adv_from != adv_to.
AdvanceAccepted_ToSelf(adv_from, adv_to, adv_amt) == TRUE

\* The test of the "Add Advance" handler.
AdvanceAccepted(adv_from, adv_to, adv_amt) == adv_from # adv_to

RecordAdvance(adv_from, adv_to, adv_amt) ==
    IF AdvanceAccepted(adv_from, adv_to, adv_amt)
    THEN /\ RoomForAdvance
         /\ advances' = AdvancePool(advances, adv_from, adv_to, adv_amt)
         /\ summary' = AdvanceSummary(summary, adv_from, adv_to, adv_amt)
         /\ transactions' = Append(transactions,
                LogEntry("Advance", adv_from, adv_to, <<>>, adv_amt, ""))
         /\ last' = [req |-> Request("RecordAdvance", TRUE, adv_from, adv_to, adv_amt,
                                     <<>>, <<>>),
                     pre |-> Snapshot]
         /\ entries' = entries \cup {adv_from, adv_to} \cup RunReads(members)
         /\ UNCHANGED <<members, expenses, settlements, now>>
    ELSE /\ last' = [req |-> Request("RecordAdvance", FALSE, adv_from, adv_to, adv_amt,
                                     <<>>, <<>>),
                     pre |-> Snapshot]
         /\ entries' = entries \cup RunReads(members)
         /\ UNCHANGED <<ledger, now>>

----------------------------------------------------------------------------
(* 2. Record Expense *)

\* The odd amounts a for which Python's round(a / 2, 2) goes up (a in hundredths; the
\* quotient x.xx5 is no binary float, so its direction follows the float nearest to
\* it): 0.01 / 2 = 0.005 gives 0.01, while 0.03 / 2 = 0.015 gives 0.01.
HalfRoundsUp == {1, 5, 7, 11, 13, 17, 19}

\* per_head = round(amount / len(participants), 2), for up to three participants.
PerHead(amount, n) ==
    LET q == amount \div n
        r == amount % n
    IN  IF 2 * r < n THEN q
        ELSE IF 2 * r > n THEN q + 1
        ELSE IF amount \in HalfRoundsUp THEN q + 1 ELSE q

\* sorted(items, key=lambda x: -x[1]): stable, so equal amounts keep their order.
RECURSIVE SortDesc(_)
SortDesc(od) ==
    IF od = <<>> THEN <<>>
    ELSE LET s == SortDesc(SubSeq(od, 1, Len(od) - 1))
             e == od[Len(od)]
             k == Cardinality({i \in 1..Len(s) : s[i].amt >= e.amt})
         IN  SubSeq(s, 1, k) \o <<e>> \o SubSeq(s, k + 1, Len(s))

\* Contributors without the sort: the insertion order of the pool.
Contributors_Unsorted(pool) == [i \in 1..Len(pool) |-> pool[i].c]

\* contributors: the keys of the payer's pool in the order of the sort, which is made
\* once, before the loop over the participants.
Contributors(pool) == LET s == SortDesc(pool) IN [i \in 1..Len(s) |-> s[i].c]

\* advance_remaining = {k: v for k, v in trip['advances'][payer].items()}
Remaining(pool) == [k \in OdKeys(pool) |-> OdGet(pool, k)]

\* UseOwn without the use of the participant's own advance.
UseOwn_Skipped(st, person) == st

\* "First, use participant's own advance if available": st is
\* [rem |-> advance_remaining, left |-> share_remaining, src |-> the participant's sources].
UseOwn(st, person) ==
    IF person \in DOMAIN st.rem /\ st.rem[person] > 0
    THEN LET use == Min(st.left, st.rem[person])
         IN  [rem |-> [st.rem EXCEPT ![person] = @ - use],
              left |-> st.left - use,
              src |-> Append(st.src, [c |-> person, amt |-> use])]
    ELSE st

\* "Then use other contributors' advance": the loop over contributors, from index i.
RECURSIVE UseOthers(_, _, _, _)
UseOthers(st, contributors, person, i) ==
    IF i > Len(contributors) THEN st
    ELSE LET contributor == contributors[i] IN
         IF contributor = person THEN UseOthers(st, contributors, person, i + 1)
         ELSE IF st.left <= 0 \/ st.rem[contributor] <= 0
              THEN UseOthers(st, contributors, person, i + 1)
              ELSE LET use == Min(st.left, st.rem[contributor])
                   IN  UseOthers([rem |-> [st.rem EXCEPT ![contributor] = @ - use],
                                  left |-> st.left - use,
                                  src |-> Append(st.src, [c |-> contributor, amt |-> use])],
                                 contributors, person, i + 1)

\* UseTreasurer without the remainder.
UseTreasurer_Nothing(st, payer) == st

\* "Remainder paid by treasurer"
UseTreasurer(st, payer) ==
    IF st.left > 0
    THEN [st EXCEPT !.src = Append(@, [c |-> payer, amt |-> st.left])]
    ELSE st

\* One round of the loop over the participants.
AllocateOne(rem, contributors, payer, per_head, person) ==
    UseTreasurer(
        UseOthers(UseOwn([rem |-> rem, left |-> per_head, src |-> <<>>], person),
                  contributors, person, 1),
        payer)

\* The loop over the participants, from index i: acc is [rem |-> advance_remaining,
\* map |-> share_source_map as a list of [person, sources]].
RECURSIVE Allocate(_, _, _, _, _, _)
Allocate(acc, contributors, payer, per_head, participants, i) ==
    IF i > Len(participants) THEN acc
    ELSE LET person == participants[i]
             st == AllocateOne(acc.rem, contributors, payer, per_head, person)
         IN  Allocate([rem |-> st.rem,
                       map |-> Append(acc.map, [person |-> person, sources |-> st.src])],
                      contributors, payer, per_head, participants, i + 1)

\* Attribute without the gets_from side of the edge.
Attribute_NoMirror(sm, pool, payer, person, contributor, amt) ==
    IF amt <= 0 \/ person = contributor THEN sm
    ELSE LET s2 == [sm EXCEPT ![person].owes_to = DictAdd(@, contributor, amt)]
         IN  IF contributor \in OdKeys(pool)
             THEN LET s3 == [s2 EXCEPT ![person].advance_used_from_others = @ + amt]
                  IN  [s3 EXCEPT ![contributor].advance_used_by_others = @ + amt,
                                 ![contributor].advance_balance = @ - amt]
             ELSE IF contributor = payer
                  THEN [s2 EXCEPT ![contributor].own_paid = @ + amt]
                  ELSE s2

\* Attribute without the skip of the participant's own advance.
Attribute_NoSelfSkip(sm, pool, payer, person, contributor, amt) ==
    IF amt <= 0 THEN sm
    ELSE LET s1 == [sm EXCEPT ![person].owes_to = DictAdd(@, contributor, amt)]
             s2 == [s1 EXCEPT ![contributor].gets_from = DictAdd(@, person, amt)]
         IN  IF contributor \in OdKeys(pool)
             THEN LET s3 == [s2 EXCEPT ![person].advance_used_from_others = @ + amt]
                  IN  [s3 EXCEPT ![contributor].advance_used_by_others = @ + amt,
                                 ![contributor].advance_balance = @ - amt]
             ELSE IF contributor = payer
                  THEN [s2 EXCEPT ![contributor].own_paid = @ + amt]
                  ELSE s2

\* Attribute without the decrement of the contributor's advance_balance.
Attribute_BalanceKept(sm, pool, payer, person, contributor, amt) ==
    IF amt <= 0 \/ person = contributor THEN sm
    ELSE LET s1 == [sm EXCEPT ![person].owes_to = DictAdd(@, contributor, amt)]
             s2 == [s1 EXCEPT ![contributor].gets_from = DictAdd(@, person, amt)]
         IN  IF contributor \in OdKeys(pool)
             THEN LET s3 == [s2 EXCEPT ![person].advance_used_from_others = @ + amt]
                  IN  [s3 EXCEPT ![contributor].advance_used_by_others = @ + amt]
             ELSE IF contributor = payer
                  THEN [s2 EXCEPT ![contributor].own_paid = @ + amt]
                  ELSE s2

\* The body of the attribution loop for one (person, contributor, amt).
Attribute(sm, pool, payer, person, contributor, amt) ==
    IF amt <= 0 \/ person = contributor THEN sm
    ELSE LET s1 == [sm EXCEPT ![person].owes_to = DictAdd(@, contributor, amt)]
             s2 == [s1 EXCEPT ![contributor].gets_from = DictAdd(@, person, amt)]
         IN  IF contributor \in OdKeys(pool)
             THEN LET s3 == [s2 EXCEPT ![person].advance_used_from_others = @ + amt]
                  IN  [s3 EXCEPT ![contributor].advance_used_by_others = @ + amt,
                                 ![contributor].advance_balance = @ - amt]
             ELSE IF contributor = payer
                  THEN [s2 EXCEPT ![contributor].own_paid = @ + amt]
                  ELSE s2

\* The inner attribution loop: the sources of one person, from index j.
RECURSIVE AttributeSources(_, _, _, _, _, _)
AttributeSources(sm, pool, payer, person, sources, j) ==
    IF j > Len(sources) THEN sm
    ELSE AttributeSources(
             Attribute(sm, pool, payer, person, sources[j].c, sources[j].amt),
             pool, payer, person, sources, j + 1)

\* The outer attribution loop: share_source_map.items(), from index i.
RECURSIVE AttributeAll(_, _, _, _, _)
AttributeAll(sm, pool, payer, map, i) ==
    IF i > Len(map) THEN sm
    ELSE AttributeAll(
             AttributeSources(sm, pool, payer, map[i].person, map[i].sources, 1),
             pool, payer, map, i + 1)

\* RewritePool adding the remaining amount to the entry (+= for =).
RewritePool_Accumulates(pool, rem) ==
    [i \in 1..Len(pool) |-> [c |-> pool[i].c, amt |-> pool[i].amt + DictGet(rem, pool[i].c)]]

\* trip['advances'][payer][contributor] = advance_remaining.get(contributor, 0.0)
RewritePool(pool, rem) ==
    [i \in 1..Len(pool) |-> [c |-> pool[i].c, amt |-> DictGet(rem, pool[i].c)]]

\* OwnShares without the test person != payer.
RECURSIVE OwnShares_PayerToo(_, _, _, _, _)
OwnShares_PayerToo(sm, payer, equal_own_share, participants, i) ==
    IF i > Len(participants) THEN sm
    ELSE LET person == participants[i]
             s1 == [sm EXCEPT ![person].owes_to = DictAdd(@, payer, equal_own_share)]
         IN  OwnShares_PayerToo(
                 [s1 EXCEPT ![payer].gets_from = DictAdd(@, person, equal_own_share)],
                 payer, equal_own_share, participants, i + 1)

\* The no-advance branch: own_paid of the payer, then one edge per other participant.
RECURSIVE OwnShares(_, _, _, _, _)
OwnShares(sm, payer, equal_own_share, participants, i) ==
    IF i > Len(participants) THEN sm
    ELSE LET person == participants[i] IN
         IF person # payer
         THEN LET s1 == [sm EXCEPT ![person].owes_to = DictAdd(@, payer, equal_own_share)]
              IN  OwnShares([s1 EXCEPT ![payer].gets_from = DictAdd(@, person, equal_own_share)],
                            payer, equal_own_share, participants, i + 1)
         ELSE OwnShares(sm, payer, equal_own_share, participants, i + 1)

\* trip['summary'][payer]['own_paid'] += round(own_payment, 2)
OwnPayment(sm, payer, amount) == [sm EXCEPT ![payer].own_paid = @ + amount]

NoAdvanceBranch(sm, payer, amount, participants) ==
    OwnShares(OwnPayment(sm, payer, amount), payer,
              PerHead(amount, Len(participants)), participants, 1)

\* trip['summary'][person]['share'] += per_head, for person in participants
RECURSIVE AddShares(_, _, _, _)
AddShares(sm, per_head, participants, i) ==
    IF i > Len(participants) THEN sm
    ELSE AddShares([sm EXCEPT ![participants[i]].share = @ + per_head],
                   per_head, participants, i + 1)

\* The branch test: the payer is a key of trip['advances'].
HoldsAdvances(adv, payer) == payer \in DOMAIN adv

\* ExpenseAccepted without the test of the amount.
ExpenseAccepted_AnyAmount(payer, amount, participants) == participants # <<>>

\* if submit and amount > 0 and participants
ExpenseAccepted(payer, amount, participants) == amount > 0 /\ participants # <<>>

\* The allocation of an expense of a payer who holds advances.
Allocation(adv, payer, amount, participants) ==
    Allocate([rem |-> Remaining(adv[payer]), map |-> <<>>],
             Contributors(adv[payer]), payer,
             PerHead(amount, Len(participants)), participants, 1)

RecordExpense(payer, amount, participants, reason) ==
    IF ExpenseAccepted(payer, amount, participants)
    THEN LET per_head == PerHead(amount, Len(participants)) IN
         /\ RoomForExpense
         /\ IF HoldsAdvances(advances, payer)
            THEN LET al == Allocation(advances, payer, amount, participants) IN
                 /\ summary' = AddShares(
                        AttributeAll(summary, advances[payer], payer, al.map, 1),
                        per_head, participants, 1)
                 /\ advances' = [advances EXCEPT ![payer] = RewritePool(@, al.rem)]
                 /\ last' = [req |-> Request("RecordExpense", TRUE, payer, None, amount,
                                             participants, al.map),
                             pre |-> Snapshot]
            ELSE /\ summary' = AddShares(
                        NoAdvanceBranch(summary, payer, amount, participants),
                        per_head, participants, 1)
                 /\ UNCHANGED advances
                 /\ last' = [req |-> Request("RecordExpense", TRUE, payer, None, amount,
                                             participants, <<>>),
                             pre |-> Snapshot]
         /\ expenses' = Append(expenses,
                [payer |-> payer, amount |-> amount, shared_by |-> participants,
                 reason |-> reason])
         /\ transactions' = Append(transactions,
                LogEntry("Expense", payer, None, participants, amount, reason))
         /\ entries' = entries \cup {payer} \cup Range(participants) \cup RunReads(members)
         /\ UNCHANGED <<members, settlements, now>>
    ELSE /\ last' = [req |-> Request("RecordExpense", FALSE, payer, None, amount,
                                     participants, <<>>),
                     pre |-> Snapshot]
         /\ entries' = entries \cup RunReads(members)
         /\ UNCHANGED <<ledger, now>>

----------------------------------------------------------------------------
(* 3. Settle Dues *)

\* owed_amt = trip['summary'][settle_from]['owes_to'].get(settle_to, 0.0)
OwedAmt(sm, settle_from, settle_to) == DictGet(sm[settle_from].owes_to, settle_to)

\* PayAmt without the clamp.
PayAmt_Unclamped(settle_amt, owed_amt) == settle_amt

\* pay_amt = min(settle_amt, owed_amt)
PayAmt(settle_amt, owed_amt) == Min(settle_amt, owed_amt)

\* SettleEdges with the payer's side alone decremented.
SettleEdges_OwesOnly(sm, settle_from, settle_to, pay_amt) ==
    LET s1 == [sm EXCEPT ![settle_from].owes_to[settle_to] = @ - pay_amt]
    IN  IF s1[settle_from].owes_to[settle_to] <= 0
        THEN [s1 EXCEPT ![settle_from].owes_to = DictDel(@, settle_to)]
        ELSE s1

\* SettleEdges deleting an entry only once it is below zero.
SettleEdges_KeepsZero(sm, settle_from, settle_to, pay_amt) ==
    LET s1 == [sm EXCEPT ![settle_from].owes_to[settle_to] = @ - pay_amt]
        s2 == [s1 EXCEPT ![settle_to].gets_from[settle_from] = @ - pay_amt]
        s3 == IF s2[settle_from].owes_to[settle_to] < 0
              THEN [s2 EXCEPT ![settle_from].owes_to = DictDel(@, settle_to)]
              ELSE s2
    IN  IF s3[settle_to].gets_from[settle_from] < 0
        THEN [s3 EXCEPT ![settle_to].gets_from = DictDel(@, settle_from)]
        ELSE s3

\* The two decrements, and the deletion of an entry that has reached zero.
SettleEdges(sm, settle_from, settle_to, pay_amt) ==
    LET s1 == [sm EXCEPT ![settle_from].owes_to[settle_to] = @ - pay_amt]
        s2 == [s1 EXCEPT ![settle_to].gets_from[settle_from] = @ - pay_amt]
        s3 == IF s2[settle_from].owes_to[settle_to] <= 0
              THEN [s2 EXCEPT ![settle_from].owes_to = DictDel(@, settle_to)]
              ELSE s2
    IN  IF s3[settle_to].gets_from[settle_from] <= 0
        THEN [s3 EXCEPT ![settle_to].gets_from = DictDel(@, settle_from)]
        ELSE s3

\* The options of "Who is receiving?": the members other than settle_from.
Receivers(settle_from) ==
    Options(SelectSeq(members, LAMBDA m : m # settle_from))

\* if owed_amt > 0
SettleAccepted(settle_from, settle_to) == OwedAmt(summary, settle_from, settle_to) > 0

\* SettleDues writing a transaction log entry also when nothing is owed.
SettleDues_LogsRefusal(settle_from, settle_to, settle_amt, note) ==
    LET owed_amt == OwedAmt(summary, settle_from, settle_to) IN
    IF SettleAccepted(settle_from, settle_to)
    THEN LET pay_amt == PayAmt(settle_amt, owed_amt) IN
         /\ RoomForSettlement
         /\ summary' = SettleEdges(summary, settle_from, settle_to, pay_amt)
         /\ now' \in {now, now + 1}
         /\ settlements' = Append(settlements,
                [from |-> settle_from, to |-> settle_to, amount |-> pay_amt,
                 note |-> note, timestamp |-> now'])
         /\ transactions' = Append(transactions,
                LogEntry("Settlement", settle_from, settle_to, <<>>, pay_amt, note))
         /\ last' = [req |-> Request("SettleDues", TRUE, settle_from, settle_to,
                                     settle_amt, <<>>, <<>>),
                     pre |-> Snapshot]
         /\ entries' = entries \cup {settle_from, settle_to} \cup RunReads(members)
         /\ UNCHANGED <<members, advances, expenses>>
    ELSE /\ transactions' = Append(transactions,
                LogEntry("Settlement", settle_from, settle_to, <<>>, 0, note))
         /\ last' = [req |-> Request("SettleDues", FALSE, settle_from, settle_to,
                                     settle_amt, <<>>, <<>>),
                     pre |-> Snapshot]
         /\ entries' = entries \cup RunReads(members)
         /\ UNCHANGED <<members, advances, expenses, settlements, summary, now>>

SettleDues(settle_from, settle_to, settle_amt, note) ==
    LET owed_amt == OwedAmt(summary, settle_from, settle_to) IN
    IF SettleAccepted(settle_from, settle_to)
    THEN LET pay_amt == PayAmt(settle_amt, owed_amt) IN
         /\ RoomForSettlement
         /\ summary' = SettleEdges(summary, settle_from, settle_to, pay_amt)
         /\ now' \in {now, now + 1}
         /\ settlements' = Append(settlements,
                [from |-> settle_from, to |-> settle_to, amount |-> pay_amt,
                 note |-> note, timestamp |-> now'])
         /\ transactions' = Append(transactions,
                LogEntry("Settlement", settle_from, settle_to, <<>>, pay_amt, note))
         /\ last' = [req |-> Request("SettleDues", TRUE, settle_from, settle_to,
                                     settle_amt, <<>>, <<>>),
                     pre |-> Snapshot]
         /\ entries' = entries \cup {settle_from, settle_to} \cup RunReads(members)
         /\ UNCHANGED <<members, advances, expenses>>
    ELSE /\ last' = [req |-> Request("SettleDues", FALSE, settle_from, settle_to,
                                     settle_amt, <<>>, <<>>),
                     pre |-> Snapshot]
         /\ entries' = entries \cup RunReads(members)
         /\ UNCHANGED <<ledger, now>>

----------------------------------------------------------------------------
(* 4. Member Summary Table *)

\* gets = sum(v for k, v in s['gets_from'].items() if k != name)
GetsBack(sm, name) == SumExcept(sm[name].gets_from, name)

\* owes = sum(v for k, v in s['owes_to'].items() if k != name)
Owes(sm, name) == SumExcept(sm[name].owes_to, name)

\* gets - owes, the "Net" column.
NetPosition(sm, name) == GetsBack(sm, name) - Owes(sm, name)

\* status = "Settled" if owes == 0 and gets == 0 else "Pending"
Status(sm, name) ==
    IF Owes(sm, name) = 0 /\ GetsBack(sm, name) = 0 THEN "Settled" ELSE "Pending"

\* sum_rows: one row per member, in the order of trip['members'].
SummaryRows(ms, sm) ==
    [i \in 1..Len(ms) |->
        LET name == ms[i]
            s == sm[name]
        IN  [Name |-> name,
             AdvanceGiven |-> s.advance_given,
             AdvanceReceived |-> s.advance_received,
             AdvanceUsedByOthers |-> s.advance_used_by_others,
             AdvanceUsedFromOthers |-> s.advance_used_from_others,
             AdvanceBalance |-> s.advance_balance,
             OwnPaid |-> s.own_paid,
             Share |-> s.share,
             GetsBack |-> GetsBack(sm, name),
             Owes |-> Owes(sm, name),
             Net |-> NetPosition(sm, name),
             Status |-> Status(sm, name)]]

\* ViewSummary reading the edges by subscript (s['gets_from'][name]), which creates
\* the entry it reads.
ViewSummary_Subscripted ==
    /\ entries' = entries \cup RunReads(members)
    /\ summary' = [m \in DOMAIN summary |->
                      IF m \in Range(members)
                      THEN [summary[m] EXCEPT !.gets_from = DictAdd(@, m, 0)]
                      ELSE summary[m]]
    /\ last' = [req |-> Request("ViewSummary", TRUE, None, None, 0, <<>>, <<>>),
                pre |-> Snapshot]
    /\ UNCHANGED <<members, advances, expenses, transactions, settlements, now>>

\* A run in which no button is pressed: the script computes the table from the ledger
\* and writes nothing, beyond the entries its reads of trip['summary'] create.
ViewSummary ==
    /\ entries' = entries \cup RunReads(members)
    /\ last' = [req |-> Request("ViewSummary", TRUE, None, None, 0, <<>>, <<>>),
                pre |-> Snapshot]
    /\ UNCHANGED <<ledger, now>>

----------------------------------------------------------------------------
(* The specifications *)

\* A refused request, like a run in which nothing is pressed, leaves every variable but
\* `last` as it found it, so whatever request follows it leads to the state that
\* request leads to from the state it found.  The runs that follow one are therefore
\* explored from that state alone: the reachable states are the same.
Heard == (last.req.ok /\ last.req.op # "ViewSummary") \/ last.req.op = "None"

\* The inputs explored for a handler, while the bounds leave room for one more request
\* of its kind: the inputs it accepts, and of the inputs it refuses, which are given
\* in classes, one of each class.  A refused request changes `last` alone, and what
\* `last` records of it are its inputs.
Representatives(accepted, refused, room) ==
    IF room
    THEN accepted \cup {CHOOSE x \in class : TRUE : class \in {c \in refused : c # {}}}
    ELSE {}

AddMemberStep ==
    /\ Heard
    /\ \E n \in Representatives({x \in NewMemberInputs : x \notin Range(members)},
                                {{x \in NewMemberInputs : x \in Range(members)}}, TRUE) :
           AddMember(n)

ViewSummaryStep == Heard /\ ViewSummary

AdvanceInputs(in) ==
    [adv_from : Options(members), adv_to : Options(members), adv_amt : in.advance]

\* The refused advances are explored one by one.
RecordAdvanceStep(in) ==
    /\ Heard
    /\ \E x \in Representatives(
               {y \in AdvanceInputs(in) : AdvanceAccepted(y.adv_from, y.adv_to, y.adv_amt)},
               {{y} : y \in {z \in AdvanceInputs(in) :
                                  ~AdvanceAccepted(z.adv_from, z.adv_to, z.adv_amt)}},
               RoomForAdvance) :
           RecordAdvance(x.adv_from, x.adv_to, x.adv_amt)

ExpenseInputs(in) ==
    [payer : Options(members), amount : in.expense, participants : Selections(members),
     reason : Reasons]

\* The refused expenses: one class per answer to whether the amount is above 0, whether
\* a participant is selected and whether the payer holds advances.
RecordExpenseStep(in) ==
    /\ Heard
    /\ \E x \in Representatives(
               {y \in ExpenseInputs(in) : ExpenseAccepted(y.payer, y.amount, y.participants)},
               {{y \in ExpenseInputs(in) :
                    /\ ~ExpenseAccepted(y.payer, y.amount, y.participants)
                    /\ (y.amount > 0) = pos
                    /\ (y.participants # <<>>) = some
                    /\ HoldsAdvances(advances, y.payer) = holds} :
                        pos \in BOOLEAN, some \in BOOLEAN, holds \in BOOLEAN},
               RoomForExpense) :
           RecordExpense(x.payer, x.amount, x.participants, x.reason)

SettleInputs(in) ==
    {x \in [settle_from : Options(members), settle_to : Names \cup {None},
            settle_amt : in.settle, note : Notes] :
        x.settle_to \in Receivers(x.settle_from)}

\* The refused settlements are explored one by one.
SettleDuesStep(in) ==
    /\ Heard
    /\ \E x \in Representatives(
               {y \in SettleInputs(in) : SettleAccepted(y.settle_from, y.settle_to)},
               {{y} : y \in {z \in SettleInputs(in) :
                                  ~SettleAccepted(z.settle_from, z.settle_to)}},
               RoomForSettlement) :
           SettleDues(x.settle_from, x.settle_to, x.settle_amt, x.note)

Next ==
    \/ AddMemberStep
    \/ RecordAdvanceStep(SmallInputs)
    \/ RecordExpenseStep(SmallInputs)
    \/ SettleDuesStep(SmallInputs)
    \/ ViewSummaryStep

Spec == Init /\ [][Next]_vars

NextScenario ==
    \/ AddMemberStep
    \/ RecordAdvanceStep(ScenarioInputs)
    \/ RecordExpenseStep(ScenarioInputs)
    \/ SettleDuesStep(ScenarioInputs)
    \/ ViewSummaryStep

SpecScenario == Init /\ [][NextScenario]_vars

----------------------------------------------------------------------------
(* Vocabulary of the properties *)

\* The latest request and the ledger it found.
Req == last.req

Pre == last.pre

\* The latest run applied a request of this kind.
Applied(op) == Req.op = op /\ Req.ok

\* The latest run refused a request of this kind.
Refused(op) == Req.op = op /\ ~Req.ok

\* The latest run left the ledger as it found it.
LedgerUnchanged == Snapshot = Pre

\* The entry owes_to[a][b] of a summary, 0 when absent.
OwesTo(sm, a, b) == DictGet(sm[a].owes_to, b)

GetsFrom(sm, a, b) == DictGet(sm[a].gets_from, b)

\* The pool of a treasurer, empty when the treasurer is no key of the advances.
PoolOf(adv, t) == IF t \in DOMAIN adv THEN adv[t] ELSE <<>>

PoolSum(adv, t) == OdSum(PoolOf(adv, t))

RECURSIVE NetSum(_, _)
NetSum(sm, S) ==
    IF S = {} THEN 0
    ELSE LET m == CHOOSE x \in S : TRUE IN NetPosition(sm, m) + NetSum(sm, S \ {m})

\* The fields of a member's summary other than the two edge maps.
Amounts(s) ==
    <<s.advance_given, s.advance_received, s.advance_used_by_others,
      s.advance_used_from_others, s.advance_balance, s.own_paid, s.share>>

----------------------------------------------------------------------------
(* C1 *)

\* C1: zero-sum.  In every reachable state (after any sequence of recordAdvance,
\* recordExpense and settle) the net positions of all the members add up to 0.
C1_ZeroSum == NetSum(summary, Names) = 0

\* An advance, an expense and a settlement are recorded and a member has a net
\* position other than 0.
C1_Witness ==
    /\ Applied("SettleDues")
    /\ NumAdvances >= 1 /\ Len(expenses) >= 1
    /\ \E m \in Names : NetPosition(summary, m) > 0

----------------------------------------------------------------------------
(* C2 *)

\* C2: mirror invariant.  For all distinct members A and B, owes_to[A][B] is present
\* exactly when gets_from[B][A] is present, and the two amounts are equal.
C2_Mirror ==
    \A a \in Names, b \in Names :
        a # b =>
            /\ (b \in DOMAIN summary[a].owes_to) <=> (a \in DOMAIN summary[b].gets_from)
            /\ OwesTo(summary, a, b) = GetsFrom(summary, b, a)

\* A settlement has lowered an edge that is still present, with its mirror.
C2_Witness ==
    /\ Applied("SettleDues")
    /\ Req.b \in DOMAIN summary[Req.a].owes_to
    /\ 0 < OwesTo(summary, Req.a, Req.b)
    /\ OwesTo(summary, Req.a, Req.b) < OwesTo(Pre.summary, Req.a, Req.b)

----------------------------------------------------------------------------
(* C3 *)

\* The latest run handled a settlement whose amount exceeded what was owed.
OverSettle == Applied("SettleDues") /\ Req.amt > OwesTo(Pre.summary, Req.a, Req.b)

----------------------------------------------------------------------------
(* C4 *)

\* C4: advance conservation.  Every pool entry is non-negative, and the sum of a
\* treasurer's pool entries is raised by no step other than a recordAdvance to that
\* treasurer: recordExpense may only lower it, settle and addMember leave the pool
\* unchanged.
C4_AdvanceConservation ==
    /\ \A t \in DOMAIN advances : \A i \in 1..Len(advances[t]) : advances[t][i].amt >= 0
    /\ \A t \in Names :
           PoolSum(advances, t) > PoolSum(Pre.advances, t) =>
               Applied("RecordAdvance") /\ Req.b = t
    /\ Req.op \in {"SettleDues", "AddMember"} => advances = Pre.advances

\* An expense has lowered the pool of its payer, which held two entries.
C4_Witness ==
    /\ Applied("RecordExpense")
    /\ Len(PoolOf(advances, Req.a)) = 2
    /\ PoolSum(advances, Req.a) < PoolSum(Pre.advances, Req.a)

----------------------------------------------------------------------------
(* C5 *)

\* The total, over the participants other than the payer, of what the latest expense
\* added to their owes_to entry toward the payer: the shares attributed to the payer.
RECURSIVE AttributedToPayer(_, _)
AttributedToPayer(payer, S) ==
    IF S = {} THEN 0
    ELSE LET p == CHOOSE x \in S : TRUE IN
         (OwesTo(summary, p, payer) - OwesTo(Pre.summary, p, payer))
             + AttributedToPayer(payer, S \ {p})

\* C5: for every recorded expense, the payer's own_paid increases by exactly the total
\* of the other participants' shares that are attributed directly to the payer.
C5_OwnPaidIsAttributedShares ==
    Applied("RecordExpense") =>
        summary[Req.a].own_paid - Pre.summary[Req.a].own_paid
            = AttributedToPayer(Req.a, Names \ {Req.a})

----------------------------------------------------------------------------
(* C6 *)

\* Scenario A has just run: on an empty ledger Alice advanced Rs. 300 to Bob, and Bob
\* then paid Rs. 150 for Alice, Bob and Carol.
ScenarioA ==
    /\ members = <<"Alice", "Bob", "Carol">>
    /\ transactions =
           << LogEntry("Advance", "Alice", "Bob", <<>>, 30000, ""),
              LogEntry("Expense", "Bob", None, <<"Alice", "Bob", "Carol">>, 15000, "trip") >>

\* C6 as stated: after scenario A Bob's pool entry for Alice is 200, Alice's
\* advance_balance is 250 and her advance_used_by_others 50, Carol's
\* advance_used_from_others is 50, Bob owes nobody and Carol owes Alice nothing.
C6_ScenarioAAsStated ==
    ScenarioA =>
        /\ OdGet(PoolOf(advances, "Bob"), "Alice") = 20000
        /\ summary["Alice"].advance_balance = 25000
        /\ summary["Alice"].advance_used_by_others = 5000
        /\ summary["Carol"].advance_used_from_others = 5000
        /\ DOMAIN summary["Bob"].owes_to = {}
        /\ "Alice" \notin DOMAIN summary["Carol"].owes_to

\* C6 as amended: after scenario A Bob's pool entry for Alice is 150, Alice's
\* advance_balance is 200 and her advance_used_by_others 100, Carol's and Bob's
\* advance_used_from_others are 50 each, and Bob and Carol each owe Alice 50 (Bob's
\* own share is drawn from Alice's advance like Carol's); Alice owes nobody.
C6_ScenarioA ==
    ScenarioA =>
        /\ OdGet(PoolOf(advances, "Bob"), "Alice") = 15000
        /\ summary["Alice"].advance_balance = 20000
        /\ summary["Alice"].advance_used_by_others = 10000
        /\ summary["Carol"].advance_used_from_others = 5000
        /\ summary["Bob"].advance_used_from_others = 5000
        /\ summary["Bob"].owes_to = [x \in {"Alice"} |-> 5000]
        /\ summary["Carol"].owes_to = [x \in {"Alice"} |-> 5000]
        /\ DOMAIN summary["Alice"].owes_to = {}
        /\ summary["Bob"].own_paid = 0

\* Scenario A has run.
C6_Witness == ScenarioA /\ Applied("RecordExpense")

----------------------------------------------------------------------------
(* C7 *)

\* C7: a recordAdvance with amount <= 0 (in particular 0) leaves the ledger unchanged:
\* no pool entry, no summary field and no transaction log entry changes.
C7_ZeroAdvanceRejected ==
    (Req.op = "RecordAdvance" /\ Req.amt <= 0) => LedgerUnchanged

----------------------------------------------------------------------------
(* C8 *)

\* C8: every entry stored in any member's owes_to or gets_from map is above 0.
C8_EdgesPositive ==
    \A a \in Names :
        /\ \A b \in DOMAIN summary[a].owes_to : summary[a].owes_to[b] > 0
        /\ \A b \in DOMAIN summary[a].gets_from : summary[a].gets_from[b] > 0

----------------------------------------------------------------------------
(* C9 *)

\* The pool of the payer of the latest expense, as the expense found it.
PrePool == PoolOf(Pre.advances, Req.a)

\* The place of a contributor in the insertion order of a pool.
Place(pool, c) == CHOOSE i \in 1..Len(pool) : pool[i].c = c

\* What the sources of one participant draw from contributor c, from index j.
RECURSIVE DrawnFrom(_, _, _)
DrawnFrom(sources, c, j) ==
    IF j > Len(sources) THEN 0
    ELSE (IF sources[j].c = c THEN sources[j].amt ELSE 0) + DrawnFrom(sources, c, j + 1)

\* What the first n participants of the latest expense draw from contributor c.
RECURSIVE DrawnByFirst(_, _)
DrawnByFirst(n, c) ==
    IF n = 0 THEN 0
    ELSE DrawnFrom(Req.sources[n].sources, c, 1) + DrawnByFirst(n - 1, c)

\* The remaining advance of contributor c once the first n participants are done.
RemainingAfter(n, c) == OdGet(PrePool, c) - DrawnByFirst(n, c)

\* Contributor c1, with amount x1, comes ahead of contributor c2, with amount x2:
\* descending amounts, ties in the insertion order of the pool.
Ahead(x1, c1, x2, c2) ==
    \/ x1 > x2
    \/ x1 = x2 /\ Place(PrePool, c1) < Place(PrePool, c2)

\* Contributor c2 is drawn for participant i of the latest expense although
\* contributor c1, like c2 another member than the participant, is not exhausted
\* once the participant is done.
DrawnPast(i, c1, c2) ==
    /\ c1 # c2 /\ c1 # Req.sources[i].person /\ c2 # Req.sources[i].person
    /\ DrawnFrom(Req.sources[i].sources, c2, 1) > 0
    /\ RemainingAfter(i, c1) > 0

\* The latest run applied an expense of a payer holding advances.
ExpenseFromPool == Applied("RecordExpense") /\ Req.a \in DOMAIN Pre.advances

\* C9 as stated: for each participant the other contributors are drawn in descending
\* order of their remaining amount at the moment the participant is processed: a
\* contributor is drawn for the participant only after every contributor with a
\* larger remaining amount at that moment is exhausted.
C9_OrderByRemainingAtParticipant ==
    ExpenseFromPool =>
        \A i \in 1..Len(Req.sources) :
            \A c1 \in OdKeys(PrePool), c2 \in OdKeys(PrePool) :
                Ahead(RemainingAfter(i - 1, c1), c1, RemainingAfter(i - 1, c2), c2)
                    => ~DrawnPast(i, c1, c2)

\* C9 as amended: for each participant the other contributors are drawn in descending
\* order of the amount they had in the payer's pool when the expense began (the order
\* is fixed once, before the first participant is processed), ties in insertion order
\* and the participant itself skipped: a contributor is drawn for a participant only
\* after every contributor that had a larger amount at the start is exhausted.
C9_OrderByAmountAtStart ==
    ExpenseFromPool =>
        \A i \in 1..Len(Req.sources) :
            \A c1 \in OdKeys(PrePool), c2 \in OdKeys(PrePool) :
                Ahead(OdGet(PrePool, c1), c1, OdGet(PrePool, c2), c2)
                    => ~DrawnPast(i, c1, c2)

\* A participant of the latest expense was covered by two other contributors, the
\* smaller one inserted first.
C9_Witness ==
    /\ ExpenseFromPool
    /\ Len(PrePool) = 2 /\ PrePool[1].amt < PrePool[2].amt
    /\ \E i \in 1..Len(Req.sources) :
           /\ Req.sources[i].person \notin OdKeys(PrePool)
           /\ \A c \in OdKeys(PrePool) : DrawnFrom(Req.sources[i].sources, c, 1) > 0

----------------------------------------------------------------------------
(* C10 *)

\* The latest run applied a settlement of an amount above 0 and within what was owed.
SettledWithin ==
    Applied("SettleDues") /\ 0 < Req.amt /\ Req.amt <= OwesTo(Pre.summary, Req.a, Req.b)

\* C10: a successful settle(from, to, amt) with 0 < amt <= owes_to[from][to] lowers
\* owes_to[from][to] and gets_from[to][from] by exactly amt, removes both entries when
\* amt equals the outstanding amount, appends exactly one Settlement record and one
\* transaction log entry, and leaves everything else unchanged.
C10_SettleEffect ==
    SettledWithin =>
        LET f == Req.a
            t == Req.b
            owed == OwesTo(Pre.summary, f, t)
        IN  /\ OwesTo(summary, f, t) = owed - Req.amt
            /\ GetsFrom(summary, t, f) = GetsFrom(Pre.summary, t, f) - Req.amt
            /\ (t \in DOMAIN summary[f].owes_to) <=> (Req.amt < owed)
            /\ (f \in DOMAIN summary[t].gets_from) <=> (Req.amt < owed)
            /\ \E n \in Notes :
                   /\ settlements = Append(Pre.settlements,
                          [from |-> f, to |-> t, amount |-> Req.amt, note |-> n,
                           timestamp |-> now])
                   /\ transactions = Append(Pre.transactions,
                          LogEntry("Settlement", f, t, <<>>, Req.amt, n))
            /\ members = Pre.members /\ advances = Pre.advances /\ expenses = Pre.expenses
            /\ \A m \in Names :
                   /\ Amounts(summary[m]) = Amounts(Pre.summary[m])
                   /\ DOMAIN summary[m].owes_to \ {t} = DOMAIN Pre.summary[m].owes_to \ {t}
                   /\ DOMAIN summary[m].gets_from \ {f} = DOMAIN Pre.summary[m].gets_from \ {f}
                   /\ \A x \in Names :
                          /\ <<m, x>> # <<f, t>> =>
                                 /\ OwesTo(summary, m, x) = OwesTo(Pre.summary, m, x)
                                 /\ (x \in DOMAIN summary[m].owes_to)
                                        <=> (x \in DOMAIN Pre.summary[m].owes_to)
                          /\ <<m, x>> # <<t, f>> =>
                                 /\ GetsFrom(summary, m, x) = GetsFrom(Pre.summary, m, x)
                                 /\ (x \in DOMAIN summary[m].gets_from)
                                        <=> (x \in DOMAIN Pre.summary[m].gets_from)

\* A settlement of the whole outstanding amount has removed the edge.
C10_Witness == SettledWithin /\ Req.amt = OwesTo(Pre.summary, Req.a, Req.b)

----------------------------------------------------------------------------
(* C11 *)

\* The latest run handled a settle(from, to, amt) that found owes_to[from][to] absent,
\* or present with 0 in it.
NothingOwed ==
    /\ Req.op = "SettleDues"
    /\ \/ Req.b \notin DOMAIN Pre.summary[Req.a].owes_to
       \/ Pre.summary[Req.a].owes_to[Req.b] = 0

\* C11: a settle(from, to, amt) that finds owes_to[from][to] absent or zero is
\* refused, whatever amt is, and leaves the ledger unchanged: no edge is created, no
\* Settlement record and no transaction log entry is appended.
C11_NoObligationRejected ==
    NothingOwed =>
        /\ ~Req.ok
        /\ summary = Pre.summary
        /\ settlements = Pre.settlements
        /\ transactions = Pre.transactions
        /\ LedgerUnchanged

\* A settlement has removed an edge, and a second settle of an amount above 0 along
\* the same edge has been refused.
C11_Witness ==
    /\ NothingOwed /\ Refused("SettleDues") /\ Req.amt > 0
    /\ settlements # <<>>
    /\ settlements[Len(settlements)].from = Req.a
    /\ settlements[Len(settlements)].to = Req.b

----------------------------------------------------------------------------
(* C12 *)

\* C12: self-exclusion.  In every reachable state no member M has an entry keyed by M
\* in owes_to[M] or in gets_from[M], also after an expense whose payer is one of its
\* participants and after one in which a participant's share is covered by that
\* participant's own advance.
C12_SelfExclusion ==
    \A m \in Names \cup {None} :
        /\ m \notin DOMAIN summary[m].owes_to
        /\ m \notin DOMAIN summary[m].gets_from

\* The payer of the latest expense is one of its participants, and a participant's
\* share was covered by that participant's own advance.
C12_Witness ==
    /\ ExpenseFromPool
    /\ Req.a \in Range(Req.ps)
    /\ \E i \in 1..Len(Req.sources) :
           DrawnFrom(Req.sources[i].sources, Req.sources[i].person, 1) > 0

----------------------------------------------------------------------------
(* C13 *)

\* The five advance fields of a member's summary.
AdvanceFields(s) ==
    <<s.advance_given, s.advance_received, s.advance_used_by_others,
      s.advance_used_from_others, s.advance_balance>>

\* The latest run applied an expense of a payer holding no advances: without a pool,
\* or with a pool in which nothing is left.
ExpenseWithoutAdvances == Applied("RecordExpense") /\ PoolSum(Pre.advances, Req.a) = 0

\* C13: when the payer holds no advances, recordExpense adds exactly the per-head
\* share round(amount / |participants|, 2) to owes_to[p][payer] and to
\* gets_from[payer][p] for every participant p other than the payer, creates no edge
\* for the payer's own portion, and changes no other edge and no advance field.
C13_DirectAttribution ==
    ExpenseWithoutAdvances =>
        LET payer == Req.a
            others == Range(Req.ps) \ {payer}
            share == PerHead(Req.amt, Len(Req.ps))
        IN  /\ \A m \in Names, x \in Names :
                   /\ OwesTo(summary, m, x) - OwesTo(Pre.summary, m, x)
                          = IF m \in others /\ x = payer THEN share ELSE 0
                   /\ GetsFrom(summary, m, x) - GetsFrom(Pre.summary, m, x)
                          = IF m = payer /\ x \in others THEN share ELSE 0
                   /\ ~(m \in others /\ x = payer) =>
                          ((x \in DOMAIN summary[m].owes_to)
                               <=> (x \in DOMAIN Pre.summary[m].owes_to))
                   /\ ~(m = payer /\ x \in others) =>
                          ((x \in DOMAIN summary[m].gets_from)
                               <=> (x \in DOMAIN Pre.summary[m].gets_from))
            /\ payer \notin DOMAIN summary[payer].owes_to
            /\ payer \notin DOMAIN summary[payer].gets_from
            /\ \A m \in Names : AdvanceFields(summary[m]) = AdvanceFields(Pre.summary[m])
            /\ advances = Pre.advances

\* A payer without a pool has paid for itself and for others, with a share above 0.
C13_Witness ==
    /\ ExpenseWithoutAdvances
    /\ Req.a \notin DOMAIN Pre.advances
    /\ Req.a \in Range(Req.ps) /\ Len(Req.ps) >= 2
    /\ PerHead(Req.amt, Len(Req.ps)) > 0

----------------------------------------------------------------------------
(* C14 *)

\* C14: in every reachable state, for every member M,
\* advance_balance[M] = advance_given[M] - advance_used_by_others[M].
C14_BalanceIsGivenLessUsed ==
    \A m \in Names \cup {None} :
        summary[m].advance_balance
            = summary[m].advance_given - summary[m].advance_used_by_others

\* A member has given an advance of which others have used a part, and not all.
C14_Witness ==
    \E m \in Names :
        /\ summary[m].advance_used_by_others > 0
        /\ summary[m].advance_balance > 0

----------------------------------------------------------------------------
(* C15 *)

\* The latest run handled a recordExpense with an amount not above 0 or without
\* participants.
InvalidExpense == Req.op = "RecordExpense" /\ (Req.amt <= 0 \/ Req.ps = <<>>)

\* C15: a recordExpense with amount <= 0 or with no participant is refused and leaves
\* the ledger entirely unchanged (shares, edges, own_paid, pool entries, expense
\* records and transaction log), whether the payer holds advances or not.
C15_InvalidExpenseRejected ==
    InvalidExpense =>
        /\ ~Req.ok
        /\ summary = Pre.summary
        /\ advances = Pre.advances
        /\ expenses = Pre.expenses
        /\ transactions = Pre.transactions
        /\ members = Pre.members /\ settlements = Pre.settlements

\* An expense of amount 0 for some participants, by a payer holding an advance above
\* 0, has been refused.
C15_Witness ==
    /\ InvalidExpense /\ Refused("RecordExpense")
    /\ Req.amt = 0 /\ Req.ps # <<>>
    /\ PoolSum(Pre.advances, Req.a) > 0

----------------------------------------------------------------------------
(* C16 *)

\* The latest run handled a recordAdvance(from, to, amount) with from = to.
SelfAdvance == Req.op = "RecordAdvance" /\ Req.a = Req.b

\* C16: a recordAdvance(from, to, amount) with from = to is refused, whatever the
\* amount is, and leaves the ledger unchanged: no summary field and no transaction log
\* entry changes, and no member has a pool entry with itself as the treasurer.
C16_SelfAdvanceRejected ==
    /\ SelfAdvance =>
           /\ ~Req.ok
           /\ advances = Pre.advances
           /\ summary = Pre.summary
           /\ transactions = Pre.transactions
           /\ LedgerUnchanged
    /\ \A t \in DOMAIN advances : t \notin OdKeys(advances[t])

\* The advance of an amount above 0 from a member to itself has been refused, on a
\* ledger that holds an advance.
C16_Witness ==
    /\ SelfAdvance /\ Refused("RecordAdvance")
    /\ Req.a \in Range(members) /\ Req.amt > 0
    /\ NumAdvances >= 1

----------------------------------------------------------------------------
(* C17 *)

\* List l is list k with n entries appended.
Extends(l, k, n) == Len(l) = Len(k) + n /\ SubSeq(l, 1, Len(k)) = k

\* The tag of the log entry an applied request of each kind appends.
KindOf(op) ==
    CASE op = "RecordAdvance" -> "Advance"
      [] op = "RecordExpense" -> "Expense"
      [] op = "SettleDues" -> "Settlement"

Logged == {"RecordAdvance", "RecordExpense", "SettleDues"}

\* C17: the transaction log, the expense list and the settlement list are
\* append-only: every operation leaves their existing entries unchanged and in order;
\* each successful recordAdvance, recordExpense and settle appends exactly one
\* transaction log entry, of the matching kind (Advance, Expense, Settlement), and a
\* refused operation appends none.
C17_AppendOnly ==
    /\ \E n \in {0, 1} : Extends(transactions, Pre.transactions, n)
    /\ \E n \in {0, 1} : Extends(expenses, Pre.expenses, n)
    /\ \E n \in {0, 1} : Extends(settlements, Pre.settlements, n)
    /\ (Req.ok /\ Req.op \in Logged) =>
           /\ Extends(transactions, Pre.transactions, 1)
           /\ transactions[Len(transactions)].kind = KindOf(Req.op)
           /\ Extends(expenses, Pre.expenses, IF Req.op = "RecordExpense" THEN 1 ELSE 0)
           /\ Extends(settlements, Pre.settlements, IF Req.op = "SettleDues" THEN 1 ELSE 0)
    /\ ~Req.ok =>
           /\ transactions = Pre.transactions
           /\ expenses = Pre.expenses
           /\ settlements = Pre.settlements

\* The log holds an advance, an expense and a settlement, the settlement just added.
C17_Witness ==
    /\ Applied("SettleDues")
    /\ {transactions[i].kind : i \in 1..Len(transactions)}
           = {"Advance", "Expense", "Settlement"}

----------------------------------------------------------------------------
(* C18 *)

\* C18: computing the member summaries (Gets-Back, Owes, Net and Status of every
\* member) is a pure read: it leaves every ledger component unchanged, and computing
\* them twice with no mutating operation in between yields identical results.
C18_SummaryIsPureRead ==
    Applied("ViewSummary") =>
        /\ LedgerUnchanged
        /\ entries = Pre.entries
        /\ SummaryRows(members, summary) = SummaryRows(Pre.members, Pre.summary)

\* The summaries have been computed for three members of whom one is pending and
\* one is settled.
C18_Witness ==
    /\ Applied("ViewSummary")
    /\ Len(members) = 3
    /\ \E i, j \in 1..3 :
           /\ SummaryRows(members, summary)[i].Status = "Pending"
           /\ SummaryRows(members, summary)[j].Status = "Settled"

----------------------------------------------------------------------------
(* C19 *)

\* The sources of participant i of the latest expense, and the participant.
SourcesOf(i) == Req.sources[i].sources

PersonOf(i) == Req.sources[i].person

\* What participant i takes from its own advance, and what is left to the payer.
OwnUsed(i) ==
    IF PersonOf(i) \in OdKeys(PrePool) THEN DrawnFrom(SourcesOf(i), PersonOf(i), 1) ELSE 0

\* The participant's own advance in the payer's pool when its turn comes.
OwnRemaining(i) ==
    IF PersonOf(i) \in OdKeys(PrePool) THEN RemainingAfter(i - 1, PersonOf(i)) ELSE 0

Remainder(i) == OdSum(SourcesOf(i)) - SumOver([c \in OdKeys(PrePool) |->
                    DrawnFrom(SourcesOf(i), c, 1)], OdKeys(PrePool))

\* C19: in a recordExpense by a payer holding advances every participant's share is
\* fully and exactly attributed.  What is taken from the participant's own advance is
\* min(share, own remaining advance) and comes before any other contributor's advance
\* for that participant; own advance used + what is drawn from other contributors +
\* the remainder attributed to the payer = the per-head share; and there is a
\* remainder only when every other contributor's remaining advance is 0.  The pool
\* entries and the edges that result are those of this attribution.
C19_ShareFullyAttributed ==
    ExpenseFromPool =>
        LET share == PerHead(Req.amt, Len(Req.ps)) IN
        /\ Len(Req.sources) = Len(Req.ps)
        /\ \A i \in 1..Len(Req.sources) :
               /\ PersonOf(i) = Req.ps[i]
               /\ OwnUsed(i) = Min(share, OwnRemaining(i))
               /\ PersonOf(i) \in OdKeys(PrePool) =>
                      \A j \in 1..Len(SourcesOf(i)) : SourcesOf(i)[j].c = PersonOf(i) => j = 1
               /\ OdSum(SourcesOf(i)) = share
               /\ Remainder(i) >= 0
               /\ Remainder(i) > 0 =>
                      /\ SourcesOf(i)[Len(SourcesOf(i))] = [c |-> Req.a, amt |-> Remainder(i)]
                      /\ \A c \in OdKeys(PrePool) : RemainingAfter(i, c) = 0
               /\ \A c \in Names \ {PersonOf(i)} :
                      OwesTo(summary, PersonOf(i), c) - OwesTo(Pre.summary, PersonOf(i), c)
                          = DrawnFrom(SourcesOf(i), c, 1)
        /\ \A c \in OdKeys(PrePool) :
               OdGet(advances[Req.a], c) = RemainingAfter(Len(Req.sources), c)

\* A participant's own advance covered a part of its share, and another
\* contributor's advance was drawn for the rest.
C19_Witness ==
    /\ ExpenseFromPool
    /\ \E i \in 1..Len(Req.sources) :
           /\ 0 < OwnUsed(i) /\ OwnUsed(i) < PerHead(Req.amt, Len(Req.ps))
           /\ \E c \in OdKeys(PrePool) \ {PersonOf(i)} : DrawnFrom(SourcesOf(i), c, 1) > 0

----------------------------------------------------------------------------
(* C20 *)

\* The summary an applied recordExpense leaves, from the pool and the summary it finds
\* (lines 108-179).
ExpenseSummary(adv, sm, payer, amount, participants) ==
    LET per_head == PerHead(amount, Len(participants)) IN
    IF HoldsAdvances(adv, payer)
    THEN AddShares(
             AttributeAll(sm, adv[payer], payer,
                          Allocation(adv, payer, amount, participants).map, 1),
             per_head, participants, 1)
    ELSE AddShares(NoAdvanceBranch(sm, payer, amount, participants),
                   per_head, participants, 1)

\* The ledgers that differ from the one the latest request found in the pool of
\* member t alone: without a pool of t when t has one, with a pool of t holding one
\* entry of 0 when t has none.
Twins(t) ==
    IF t \in DOMAIN Pre.advances
    THEN {[x \in DOMAIN Pre.advances \ {t} |-> Pre.advances[x]]}
    ELSE {[x \in DOMAIN Pre.advances \cup {t} |->
              IF x = t THEN <<[c |-> m, amt |-> 0]>> ELSE Pre.advances[x]] :
                  m \in Range(Pre.members) \ {t}}

\* Two summaries agree on the amounts of the edges, on own_paid and on the shares.
SameEffect(s1, s2) ==
    \A m \in Names :
        /\ \A x \in Names : OwesTo(s1, m, x) = OwesTo(s2, m, x)
        /\ \A x \in Names : GetsFrom(s1, m, x) = GetsFrom(s2, m, x)
        /\ s1[m].own_paid = s2[m].own_paid
        /\ s1[m].share = s2[m].share

\* C20: the effect of recordExpense depends on the remaining pool amounts alone, not
\* on the history of the pool: on two ledgers that are identical except that in one
\* the payer has pool entries all equal to 0 and in the other the payer has no pool
\* entry at all, the same recordExpense produces the same owes_to and gets_from
\* edges, the same own_paid and the same shares.
C20_PoolHistoryIrrelevant ==
    (Applied("RecordExpense") /\ PoolSum(Pre.advances, Req.a) = 0) =>
        /\ summary = ExpenseSummary(Pre.advances, Pre.summary, Req.a, Req.amt, Req.ps)
        /\ \A twin \in Twins(Req.a) :
               SameEffect(summary,
                          ExpenseSummary(twin, Pre.summary, Req.a, Req.amt, Req.ps))

----------------------------------------------------------------------------
(* C21 *)

\* What is left of contributor c's advances with all the treasurers.
RECURSIVE HeldFor(_, _, _)
HeldFor(adv, c, T) ==
    IF T = {} THEN 0
    ELSE LET t == CHOOSE x \in T : TRUE IN OdGet(adv[t], c) + HeldFor(adv, c, T \ {t})

\* What the participants of an allocation map take from their own advance in the
\* pool, per member.
RECURSIVE OwnTaken(_, _, _)
OwnTaken(map, pool, i) ==
    IF i > Len(map) THEN [m \in Names |-> 0]
    ELSE LET rest == OwnTaken(map, pool, i + 1)
             person == map[i].person
         IN  IF person \in OdKeys(pool)
             THEN [rest EXCEPT ![person] = @ + DrawnFrom(map[i].sources, person, 1)]
             ELSE rest

\* The advances and expenses of the transaction log, from entry i, run again from the
\* pool `adv`: the pool they leave, and per member the total of its own advance that
\* was used for its own shares (`own`).
RECURSIVE Replay(_, _, _)
Replay(adv, own, i) ==
    IF i > Len(transactions) THEN [adv |-> adv, own |-> own]
    ELSE LET e == transactions[i] IN
         IF e.kind = "Advance"
         THEN Replay(AdvancePool(adv, e.a, e.b, e.amount), own, i + 1)
         ELSE IF e.kind = "Expense" /\ HoldsAdvances(adv, e.a)
              THEN LET al == Allocation(adv, e.a, e.amount, e.ps)
                       taken == OwnTaken(al.map, adv[e.a], 1)
                   IN  Replay([adv EXCEPT ![e.a] = RewritePool(@, al.rem)],
                              [m \in Names |-> own[m] + taken[m]], i + 1)
              ELSE Replay(adv, own, i + 1)

OwnConsumed == Replay(EmptyDict, [m \in Names |-> 0], 1)

\* C21: in every reachable state, for every member C, the sum over all treasurers T
\* of advances[T][C] is at least 0 and at most advance_balance[C], and the two differ
\* by exactly the total of C's own advance that was used to cover C's own shares.
C21_PoolWithinBalance ==
    /\ OwnConsumed.adv = advances
    /\ \A c \in Names :
           LET held == HeldFor(advances, c, DOMAIN advances) IN
           /\ 0 <= held
           /\ held <= summary[c].advance_balance
           /\ summary[c].advance_balance - held = OwnConsumed.own[c]

\* A member has used a part of its own advance for its own share, another part was
\* used by others, and a part is left.
C21_Witness ==
    \E c \in Names :
        /\ OwnConsumed.own[c] > 0
        /\ summary[c].advance_used_by_others > 0
        /\ HeldFor(advances, c, DOMAIN advances) > 0

----------------------------------------------------------------------------
(* C22 *)

\* C22: every Settlement record of the settlement list has an amount above 0 and not
\* above the owes_to[from][to] outstanding just before it was recorded; a settle with
\* amount 0 appends no Settlement record and no transaction log entry.
C22_SettlementsPositive ==
    /\ \A i \in 1..Len(settlements) : settlements[i].amount > 0
    /\ Applied("SettleDues") =>
           settlements[Len(settlements)].amount <= OwesTo(Pre.summary, Req.a, Req.b)
    /\ (Req.op = "SettleDues" /\ Req.amt = 0) =>
           /\ settlements = Pre.settlements
           /\ transactions = Pre.transactions

====
